---- MODULE Spec2Model ----
(***************************************************************************)
(* Model of the sqs-navbat queue engine (src/src/queue/mod.rs) and of the  *)
(* HTTP handlers that drive it (src/src/api/*.rs).                         *)
(*                                                                         *)
(* Time is counted in milliseconds; Instant::now() is the variable `now`,   *)
(* which may advance between any two steps.  UUIDv4 values (message ids,   *)
(* receipt handles) are drawn from counters, so every generated value is   *)
(* fresh.                                                                  *)
(***************************************************************************)
EXTENDS Integers, Sequences, FiniteSets, TLC

\* ------------------------------------------------------------------ bounds
MaxSecs == 1
MaxSends == 2
MaxHandles == 3
MaxPollTicks == 5
MaxPollSends == 1
MaxPollHandles == 1
MaxSendSends == 3
MaxSendHandles == 1
MaxSetSends == 1
MaxSetHandles == 1
MaxApiTicks == 1
MaxApiSends == 1
MaxApiHandles == 1
MaxDispatchSends == 2
MaxLockTicks == 1
MaxLockSends == 1
MaxLockHandles == 1
MaxLiveTicks == 5
MaxLiveSends == 1
MaxCapSends == 11
MaxCapHandles == 12
MaxOrderSends == 3
MaxOrderHandles == 2

\* ------------------------------------------------------- program constants
MsPerSec == 1000
PollIntervalMs == 200
DefaultVisibilityTimeout == 30
MaxReceiveCap == 10
MinReceiveCap == 1

\* ------------------------------------------------------------ input domains
Procs == {"p1", "p2"}
Clients == {"p1"}
Receivers == {"p1"}
Senders == {"p2"}
NoProc == "none"
ExistingQueues == {"q1"}
QueueNames == {"q1", "qx"}
EngineQueues == {"q1"}
Bodies == {"a"}
OrderBodies == {"a", "b"}
NoHandle == 0
NoTime == -1
NoVT == -1
HandleInputs == 1..MaxHandles
VTInputs == {NoVT, 0}
CVInputs == {0, 1}
WaitInputs == {0, 1}
MaxNumberInputs == {0, 2, 11}
EngineMaxNumbers == {1, 2}
InitialVTs == {1}
RequestedInputs == {{}, {"VisibilityTimeout"}}
SetInputs ==
  { {},
    {[name |-> "VisibilityTimeout", value |-> "2"]},
    {[name |-> "VisibilityTimeout", value |-> "abc"]},
    {[name |-> "ApproximateNumberOfMessages", value |-> "7"],
     [name |-> "DelaySeconds", value |-> "5"]} }
LockSetInputs == {{[name |-> "VisibilityTimeout", value |-> "2"]}}
ApiSetInputs ==
  { {},
    {[name |-> "VisibilityTimeout", value |-> "2"]},
    {[name |-> "ApproximateNumberOfMessages", value |-> "7"]} }

VARIABLES now, queues, lock, pc, frame, resp, nextId, nextHandle,
          pushOrder, issuedTo, delCount, hidden, arrived, raced, s3, store

vars == <<now, queues, lock, pc, frame, resp, nextId, nextHandle,
          pushOrder, issuedTo, delCount, hidden, arrived, raced, s3, store>>

Min(a, b) == IF a <= b THEN a ELSE b
Max(a, b) == IF a >= b THEN a ELSE b

\* ------------------------------------------------------------ queue engine
\* Mutant: a new message becomes visible one second after it is created.
NewMessageDelayed(id, message_body, t) ==
  [id |-> id, message_body |-> message_body, receipt_handle |-> NoHandle,
   receive_count |-> 0, visible_at |-> t + MsPerSec, first_received_at |-> NoTime]

NewMessage(id, message_body, t) ==
  [id |-> id, message_body |-> message_body, receipt_handle |-> NoHandle,
   receive_count |-> 0, visible_at |-> t, first_received_at |-> NoTime]

NewQueue(default_visibility_timeout) ==
  [default_visibility_timeout |->
      IF default_visibility_timeout = NoVT THEN DefaultVisibilityTimeout
      ELSE default_visibility_timeout,
   messages |-> <<>>]

\* Mutant: the message is pushed at the head.
push_front(messages, msg) == <<msg>> \o messages

push(messages, msg) == Append(messages, msg)

\* Mutant: a message that already carries a receipt handle keeps it.
RECURSIVE receive_keep_handle(_, _, _, _, _, _, _)
receive_keep_handle(messages, i, max_messages, timeout, t, h, received) ==
  IF i > Len(messages) \/ Len(received) >= max_messages
  THEN [messages |-> messages, received |-> received]
  ELSE IF messages[i].visible_at <= t
       THEN LET m == [messages[i] EXCEPT
                        !.receipt_handle = IF @ = NoHandle THEN h ELSE @,
                        !.receive_count = @ + 1,
                        !.visible_at = t + timeout * MsPerSec,
                        !.first_received_at = IF @ = NoTime THEN t ELSE @]
            IN receive_keep_handle([messages EXCEPT ![i] = m], i + 1,
                                   max_messages, timeout, t, h + 1,
                                   Append(received, m))
       ELSE receive_keep_handle(messages, i + 1, max_messages, timeout, t, h,
                                received)

\* Mutant: a message is visible only strictly after visible_at.
RECURSIVE receive_strict(_, _, _, _, _, _, _)
receive_strict(messages, i, max_messages, timeout, t, h, received) ==
  IF i > Len(messages) \/ Len(received) >= max_messages
  THEN [messages |-> messages, received |-> received]
  ELSE IF messages[i].visible_at < t
       THEN LET m == [messages[i] EXCEPT
                        !.receipt_handle = h,
                        !.receive_count = @ + 1,
                        !.visible_at = t + timeout * MsPerSec,
                        !.first_received_at = IF @ = NoTime THEN t ELSE @]
            IN receive_strict([messages EXCEPT ![i] = m], i + 1, max_messages,
                              timeout, t, h + 1, Append(received, m))
       ELSE receive_strict(messages, i + 1, max_messages, timeout, t, h,
                           received)

\* Mutant: a receive hands the message out without counting it.
RECURSIVE receive_no_count(_, _, _, _, _, _, _)
receive_no_count(messages, i, max_messages, timeout, t, h, received) ==
  IF i > Len(messages) \/ Len(received) >= max_messages
  THEN [messages |-> messages, received |-> received]
  ELSE IF messages[i].visible_at <= t
       THEN LET m == [messages[i] EXCEPT
                        !.receipt_handle = h,
                        !.visible_at = t + timeout * MsPerSec,
                        !.first_received_at = IF @ = NoTime THEN t ELSE @]
            IN receive_no_count([messages EXCEPT ![i] = m], i + 1, max_messages,
                                timeout, t, h + 1, Append(received, m))
       ELSE receive_no_count(messages, i + 1, max_messages, timeout, t, h,
                             received)

RECURSIVE receive_scan(_, _, _, _, _, _, _)
receive_scan(messages, i, max_messages, timeout, t, h, received) ==
  IF i > Len(messages) \/ Len(received) >= max_messages
  THEN [messages |-> messages, received |-> received]
  ELSE IF messages[i].visible_at <= t
       THEN LET m == [messages[i] EXCEPT
                        !.receipt_handle = h,
                        !.receive_count = @ + 1,
                        !.visible_at = t + timeout * MsPerSec,
                        !.first_received_at = IF @ = NoTime THEN t ELSE @]
            IN receive_scan([messages EXCEPT ![i] = m], i + 1, max_messages,
                            timeout, t, h + 1, Append(received, m))
       ELSE receive_scan(messages, i + 1, max_messages, timeout, t, h, received)

\* Mutant: a received message is taken out and put back at the tail.
receive_requeue(queue, max_messages, visibility_timeout, t, h) ==
  LET timeout == IF visibility_timeout = NoVT
                 THEN queue.default_visibility_timeout
                 ELSE visibility_timeout
      r == receive_scan(queue.messages, 1, max_messages, timeout, t, h, <<>>)
      taken == {r.received[k].id : k \in 1..Len(r.received)}
  IN [messages |-> SelectSeq(r.messages, LAMBDA m : m.id \notin taken)
                     \o r.received,
      received |-> r.received]

\* Mutant: a timeout of 0 is taken as "not given".
receive_zero_default(queue, max_messages, visibility_timeout, t, h) ==
  LET timeout == IF visibility_timeout = NoVT \/ visibility_timeout = 0
                 THEN queue.default_visibility_timeout
                 ELSE visibility_timeout
  IN receive_scan(queue.messages, 1, max_messages, timeout, t, h, <<>>)

receive(queue, max_messages, visibility_timeout, t, h) ==
  LET timeout == IF visibility_timeout = NoVT
                 THEN queue.default_visibility_timeout
                 ELSE visibility_timeout
  IN receive_scan(queue.messages, 1, max_messages, timeout, t, h, <<>>)

\* Mutant: any message that carries a handle matches.
position_any(messages, handle) ==
  LET hits == {i \in 1..Len(messages) : messages[i].receipt_handle # NoHandle}
  IN IF hits = {} THEN 0 ELSE CHOOSE i \in hits : \A j \in hits : i <= j

\* Mutant: only a message whose visibility window is still open matches.
position_in_flight(messages, handle) ==
  LET hits == {i \in 1..Len(messages) :
                 messages[i].receipt_handle = handle /\ messages[i].visible_at > now}
  IN IF hits = {} THEN 0 ELSE CHOOSE i \in hits : \A j \in hits : i <= j

position(messages, handle) ==
  LET hits == {i \in 1..Len(messages) : messages[i].receipt_handle = handle}
  IN IF hits = {} THEN 0 ELSE CHOOSE i \in hits : \A j \in hits : i <= j

\* Mutant: the tail of the queue is removed, whatever the position found.
RemoveLast(messages, pos) == SubSeq(messages, 1, Len(messages) - 1)

RemoveAt(messages, pos) ==
  [i \in 1..(Len(messages) - 1) |->
      IF i < pos THEN messages[i] ELSE messages[i + 1]]

\* Mutant: the matched message is reported deleted but stays in the queue.
delete_keep(messages, handle) ==
  [messages |-> messages, ok |-> position(messages, handle) # 0]

\* Mutant: a delete that finds no message drops the head of the queue.
delete_head_on_miss(messages, handle) ==
  LET pos == position(messages, handle)
  IN IF pos # 0
     THEN [messages |-> RemoveAt(messages, pos), ok |-> TRUE]
     ELSE [messages |-> IF messages = <<>> THEN messages ELSE Tail(messages),
           ok |-> FALSE]

delete_by_receipt_handle(messages, handle) ==
  LET pos == position(messages, handle)
  IN IF pos # 0
     THEN [messages |-> RemoveAt(messages, pos), ok |-> TRUE]
     ELSE [messages |-> messages, ok |-> FALSE]

\* Mutant: a timeout of 0 is treated as "leave the message alone".
change_visibility_skip_zero(messages, handle, timeout, t) ==
  LET pos == position(messages, handle)
  IN IF pos # 0
     THEN [messages |-> IF timeout = 0 THEN messages
                        ELSE [messages EXCEPT
                                ![pos].visible_at = t + timeout * MsPerSec],
           ok |-> TRUE]
     ELSE [messages |-> messages, ok |-> FALSE]

\* Mutant: extending the window counts as another receive.
change_visibility_count(messages, handle, timeout, t) ==
  LET pos == position(messages, handle)
  IN IF pos # 0
     THEN [messages |-> [messages EXCEPT
                           ![pos].visible_at = t + timeout * MsPerSec,
                           ![pos].receive_count = @ + 1],
           ok |-> TRUE]
     ELSE [messages |-> messages, ok |-> FALSE]

change_visibility(messages, handle, timeout, t) ==
  LET pos == position(messages, handle)
  IN IF pos # 0
     THEN [messages |-> [messages EXCEPT
                           ![pos].visible_at = t + timeout * MsPerSec],
           ok |-> TRUE]
     ELSE [messages |-> messages, ok |-> FALSE]

approximate_number_of_messages(messages, t) ==
  Cardinality({i \in 1..Len(messages) : messages[i].visible_at <= t})

approximate_number_of_messages_not_visible(messages, t) ==
  Cardinality({i \in 1..Len(messages) : messages[i].visible_at > t})

\* ------------------------------------------------------- handler plumbing
NoFrame ==
  [action |-> "none", queue |-> "", n |-> 0, max |-> 0, vt |-> NoVT, wait |-> 0,
   deadline |-> 0, wake |-> 0, polled |-> FALSE, msg_id |-> 0, body |-> "",
   visible |-> 0, polls |-> 0, attrs |-> {}, db_attrs |-> {},
   requested |-> {}]

NoResp ==
  [action |-> "none", status |-> 0, error |-> "", queue |-> "",
   handle |-> NoHandle, timeout |-> NoVT, message_id |-> 0,
   messages |-> <<>>, xml |-> <<>>, attributes |-> <<>>, metadata |-> "",
   request_id |-> 0]

\* The field of each response struct that holds the ResponseMetadata.
MetadataField ==
  [SendMessage |-> "reponse_metadata",
   ReceiveMessage |-> "response_metadata",
   DeleteMessage |-> "response_metadata",
   ChangeMessageVisibility |-> "response_metadata",
   GetQueueUrl |-> "response_metadata",
   GetQueueAttributes |-> "response_metadata",
   SetQueueAttributes |-> "response_metadata"]

\* serde's rename_all = "PascalCase" on the field names above.
PascalCase ==
  [response_metadata |-> "ResponseMetadata",
   reponse_metadata |-> "ReponseMetadata"]

\* generate_random_uuid4 for a RequestId: an identifier no response that is
\* still held carries.
generate_request_id ==
  CHOOSE n \in 1..(Cardinality(Procs) + 1) :
     /\ \A p \in Procs : resp[p].request_id # n
     /\ \A k \in 1..(n - 1) : \E p \in Procs : resp[p].request_id = k

\* A serialized response struct.
Ok(action, queue) ==
  [NoResp EXCEPT !.action = action, !.status = 200, !.queue = queue,
                 !.metadata = PascalCase[MetadataField[action]],
                 !.request_id = generate_request_id]

\* The literal body of a ReceiveMessage that found nothing.
EmptyReceive(queue) ==
  [NoResp EXCEPT !.action = "ReceiveMessage", !.status = 200, !.queue = queue]

BadRequest(action, queue, error) ==
  [NoResp EXCEPT !.action = action, !.status = 400, !.queue = queue,
                 !.error = error]

NonExistentQueue == "AWS.SimpleQueueService.NonExistentQueue; Queue: "
NonExistentQueueSend ==
  "AWS.SimpleQueueService.NonExistentQueue; see the SQS docs. Queue: "
ReceiptHandleIsInvalid ==
  "ReceiptHandleIsInvalid; The input receipt handle is not a valid receipt handle."

\* Mutant: the upper cap of 10 is dropped.
ClampMaxNoCap(max_number_of_messages) ==
  Max(max_number_of_messages, MinReceiveCap)

ClampMax(max_number_of_messages) ==
  Max(Min(max_number_of_messages, MaxReceiveCap), MinReceiveCap)

Ids(messages) == [i \in 1..Len(messages) |-> messages[i].id]
IdSet(messages) == {messages[i].id : i \in 1..Len(messages)}
VisibleIdx(messages, t) == {i \in 1..Len(messages) : messages[i].visible_at <= t}
IssuedId(h) == IF h \in DOMAIN issuedTo THEN issuedTo[h] ELSE 0
Bump(count, k) ==
  [j \in DOMAIN count \cup {k} |->
     IF j \in DOMAIN count THEN count[j] + (IF j = k THEN 1 ELSE 0) ELSE 1]
NoS3 == [stage |-> 0, h |-> NoHandle, id |-> 0, rc |-> 0]

TypeOK ==
  /\ now >= 0
  /\ lock \in Procs \cup {NoProc}
  /\ DOMAIN queues = ExistingQueues
  /\ nextId >= 1
  /\ nextHandle = Len(issuedTo) + 1

Init ==
  /\ now = 0
  /\ \E v \in InitialVTs : queues = [q \in ExistingQueues |-> NewQueue(v)]
  /\ lock = NoProc
  /\ pc = [p \in Procs |-> "idle"]
  /\ frame = [p \in Procs |-> NoFrame]
  /\ resp = [p \in Procs |-> NoResp]
  /\ nextId = 1
  /\ nextHandle = 1
  /\ pushOrder = <<>>
  /\ issuedTo = <<>>
  /\ delCount = <<>>
  /\ hidden = <<>>
  /\ arrived = [p \in Procs |-> {}]
  /\ raced = [p \in Procs |-> {}]
  /\ s3 = NoS3
  /\ store = [q \in QueueNames |-> {}]

\* Instant::now() advances.
Tick(d) ==
  /\ now' = now + d
  /\ UNCHANGED <<queues, lock, pc, frame, resp, nextId, nextHandle, pushOrder,
                 issuedTo, delCount, hidden, arrived, raced, s3>>
  /\ UNCHANGED store

\* The client has read the response; the handler task is gone.
Ack(p) ==
  /\ pc[p] = "done"
  /\ pc' = [pc EXCEPT ![p] = "idle"]
  /\ resp' = [resp EXCEPT ![p] = NoResp]
  /\ frame' = [frame EXCEPT ![p] = NoFrame]
  /\ arrived' = [arrived EXCEPT ![p] = {}]
  /\ raced' = [raced EXCEPT ![p] = {}]
  /\ UNCHANGED <<now, queues, lock, nextId, nextHandle, pushOrder, issuedTo,
                 delCount, hidden, s3>>
  /\ UNCHANGED store

\* ------------------------------------------------------------ SendMessage
SendStart(p, queue_name, message_body) ==
  /\ pc[p] = "idle"
  /\ pc' = [pc EXCEPT ![p] = "send_lock"]
  /\ frame' = [frame EXCEPT ![p] = [NoFrame EXCEPT !.action = "SendMessage",
                   !.queue = queue_name, !.msg_id = nextId,
                   !.body = message_body]]
  /\ nextId' = nextId + 1
  /\ UNCHANGED <<now, queues, lock, resp, nextHandle, pushOrder, issuedTo,
                 delCount, hidden, arrived, raced, s3>>
  /\ UNCHANGED store

SendPush(p) ==
  /\ pc[p] = "send_lock"
  /\ lock = NoProc
  /\ LET f == frame[p] IN
     IF f.queue \in DOMAIN queues
     THEN /\ queues' = [queues EXCEPT ![f.queue].messages =
                          push(@, NewMessage(f.msg_id, f.body, now))]
          /\ resp' = [resp EXCEPT ![p] =
                        [Ok("SendMessage", f.queue) EXCEPT !.message_id = f.msg_id]]
          /\ pushOrder' = Append(pushOrder, f.msg_id)
          /\ arrived' = [r \in Procs |->
                IF frame[r].action = "ReceiveMessage" /\ frame[r].polled
                   /\ frame[r].queue = f.queue /\ pc[r] # "done"
                   /\ now < frame[r].deadline
                THEN arrived[r] \cup {f.msg_id} ELSE arrived[r]]
          /\ raced' = [r \in Procs |->
                IF frame[r].action = "ReceiveMessage"
                   /\ frame[r].queue = f.queue /\ pc[r] = "recv_check"
                THEN raced[r] \cup {f.msg_id} ELSE raced[r]]
     ELSE /\ resp' = [resp EXCEPT ![p] =
                        BadRequest("SendMessage", f.queue, NonExistentQueueSend)]
          /\ UNCHANGED <<queues, pushOrder, arrived, raced>>
  /\ pc' = [pc EXCEPT ![p] = "done"]
  /\ UNCHANGED <<now, lock, frame, nextId, nextHandle, issuedTo, delCount,
                 hidden, s3>>
  /\ UNCHANGED store

\* --------------------------------------------------------- ReceiveMessage
\* SystemTime::now() as milliseconds since the Unix epoch, read at instant t;
\* the epoch is the instant 0 of the clock.
SystemTimeMs(t) == t

\* The <Message> element built for a received message at instant t
\* (MD5OfBody, computed by a helper outside the handler, is left out).
MessageXml(msg, t) ==
  [message_id |-> msg.id,
   receipt_handle |-> msg.receipt_handle,
   body |-> msg.message_body,
   attributes |->
      <<[name |-> "ApproximateReceiveCount",
         value |-> ToString(msg.receive_count)]>>
      \o IF msg.first_received_at # NoTime
         THEN <<[name |-> "ApproximateFirstReceiveTimestamp",
                 value |-> ToString(SystemTimeMs(t))]>>
         ELSE <<>>]

MessagesXml(messages, t) ==
  [k \in 1..Len(messages) |-> MessageXml(messages[k], t)]

EffectiveTimeout(queue, visibility_timeout) ==
  IF visibility_timeout = NoVT THEN queue.default_visibility_timeout
  ELSE visibility_timeout

\* No message ahead of message `id` is visible at time t.
HeadOfVisible(messages, id, t) ==
  \E k \in 1..Len(messages) :
     /\ messages[k].id = id
     /\ \A j \in 1..(k - 1) : messages[j].visible_at > t

HandlesNeeded(p) ==
  IF frame[p].queue \in DOMAIN queues
  THEN Min(frame[p].max,
           approximate_number_of_messages(queues[frame[p].queue].messages, now))
  ELSE 0

RecvStart(p, queue_name, max_number_of_messages, wait_time_seconds, visibility_timeout) ==
  /\ pc[p] = "idle"
  /\ pc' = [pc EXCEPT ![p] = "recv_poll"]
  /\ frame' = [frame EXCEPT ![p] = [NoFrame EXCEPT !.action = "ReceiveMessage",
                   !.queue = queue_name,
                   !.n = max_number_of_messages,
                   !.max = ClampMax(max_number_of_messages),
                   !.vt = visibility_timeout,
                   !.wait = wait_time_seconds,
                   !.deadline = now + wait_time_seconds * MsPerSec]]
  /\ UNCHANGED <<now, queues, lock, resp, nextId, nextHandle, pushOrder,
                 issuedTo, delCount, hidden, arrived, raced, s3>>
  /\ UNCHANGED store

RecvPoll(p) ==
  /\ pc[p] = "recv_poll"
  /\ lock = NoProc
  /\ LET f == frame[p] IN
     IF f.queue \in DOMAIN queues
     THEN LET queue == queues[f.queue]
              r == receive(queue, f.max, f.vt, now, nextHandle)
              got == IdSet(r.received)
          IN /\ queues' = [queues EXCEPT ![f.queue].messages = r.messages]
             /\ nextHandle' = nextHandle + Len(r.received)
             /\ issuedTo' = issuedTo \o Ids(r.received)
             /\ hidden' = [i \in DOMAIN hidden \cup got |->
                   IF i \in got
                   THEN [timed |-> EffectiveTimeout(queue, f.vt) > 0,
                         until |-> now + EffectiveTimeout(queue, f.vt) * MsPerSec,
                         cv |-> NoTime]
                   ELSE hidden[i]]
             /\ s3' = IF s3.stage = 1
                      THEN IF HeadOfVisible(queue.messages, s3.id, now)
                           THEN [s3 EXCEPT !.stage = 2] ELSE NoS3
                      ELSE s3
             /\ raced' = [raced EXCEPT ![p] = {}]
             /\ frame' = [frame EXCEPT ![p].polled = TRUE,
                                       ![p].polls = @ + 1]
             /\ IF r.received # <<>>
                THEN /\ pc' = [pc EXCEPT ![p] = "done"]
                     /\ resp' = [resp EXCEPT ![p] =
                          [Ok("ReceiveMessage", f.queue) EXCEPT
                             !.messages = r.received,
                             !.xml = MessagesXml(r.received, now)]]
                ELSE /\ pc' = [pc EXCEPT ![p] = "recv_check"]
                     /\ UNCHANGED resp
     ELSE /\ pc' = [pc EXCEPT ![p] = "done"]
          /\ resp' = [resp EXCEPT ![p] =
                BadRequest("ReceiveMessage", f.queue, NonExistentQueue)]
          /\ UNCHANGED <<queues, nextHandle, issuedTo, hidden, s3, raced,
                         frame>>
  /\ UNCHANGED <<now, lock, nextId, pushOrder, delCount, arrived>>
  /\ UNCHANGED store

\* Mutant: the deadline is compared with > instead of >=.
RecvCheckStrict(p) ==
  /\ pc[p] = "recv_check"
  /\ IF now > frame[p].deadline
     THEN /\ pc' = [pc EXCEPT ![p] = "done"]
          /\ resp' = [resp EXCEPT ![p] = EmptyReceive(frame[p].queue)]
          /\ UNCHANGED frame
     ELSE /\ pc' = [pc EXCEPT ![p] = "recv_sleep"]
          /\ frame' = [frame EXCEPT ![p].wake = now + PollIntervalMs]
          /\ UNCHANGED resp
  /\ UNCHANGED <<now, queues, lock, nextId, nextHandle, pushOrder, issuedTo,
                 delCount, hidden, arrived, raced, s3, store>>

RecvCheck(p) ==
  /\ pc[p] = "recv_check"
  /\ IF now >= frame[p].deadline
     THEN /\ pc' = [pc EXCEPT ![p] = "done"]
          /\ resp' = [resp EXCEPT ![p] = EmptyReceive(frame[p].queue)]
          /\ UNCHANGED frame
     ELSE /\ pc' = [pc EXCEPT ![p] = "recv_sleep"]
          /\ frame' = [frame EXCEPT ![p].wake = now + PollIntervalMs]
          /\ UNCHANGED resp
  /\ UNCHANGED <<now, queues, lock, nextId, nextHandle, pushOrder, issuedTo,
                 delCount, hidden, arrived, raced, s3>>
  /\ UNCHANGED store

\* Mutant: after the sleep the deadline is checked before polling again.
RecvWakeCheckFirst(p) ==
  /\ pc[p] = "recv_sleep"
  /\ now >= frame[p].wake
  /\ pc' = [pc EXCEPT ![p] = "recv_check"]
  /\ frame' = [frame EXCEPT ![p].wake = 0]
  /\ UNCHANGED <<now, queues, lock, resp, nextId, nextHandle, pushOrder,
                 issuedTo, delCount, hidden, arrived, raced, s3>>
  /\ UNCHANGED store

RecvWake(p) ==
  /\ pc[p] = "recv_sleep"
  /\ now >= frame[p].wake
  /\ pc' = [pc EXCEPT ![p] = "recv_poll"]
  /\ frame' = [frame EXCEPT ![p].wake = 0]
  /\ UNCHANGED <<now, queues, lock, resp, nextId, nextHandle, pushOrder,
                 issuedTo, delCount, hidden, arrived, raced, s3>>
  /\ UNCHANGED store

\* ---------------------------------------------------------- DeleteMessage
DeleteMessage(p, queue_name, receipt_handle) ==
  /\ pc[p] = "idle"
  /\ lock = NoProc
  /\ pc' = [pc EXCEPT ![p] = "done"]
  /\ IF queue_name \in DOMAIN queues
     THEN LET d == delete_by_receipt_handle(queues[queue_name].messages,
                                            receipt_handle)
          IN /\ queues' = [queues EXCEPT ![queue_name].messages = d.messages]
             /\ IF d.ok
                THEN /\ resp' = [resp EXCEPT ![p] =
                          [Ok("DeleteMessage", queue_name) EXCEPT
                             !.handle = receipt_handle]]
                     /\ delCount' = Bump(delCount, receipt_handle)
                     /\ hidden' = [i \in DOMAIN hidden \ {IssuedId(receipt_handle)}
                                    |-> hidden[i]]
                     /\ s3' = IF s3.stage = 1 /\ s3.h = receipt_handle
                              THEN NoS3 ELSE s3
                ELSE /\ resp' = [resp EXCEPT ![p] =
                          [BadRequest("DeleteMessage", queue_name,
                                      ReceiptHandleIsInvalid) EXCEPT
                             !.handle = receipt_handle]]
                     /\ UNCHANGED <<delCount, hidden, s3>>
     ELSE /\ resp' = [resp EXCEPT ![p] =
                [BadRequest("DeleteMessage", queue_name, NonExistentQueue)
                   EXCEPT !.handle = receipt_handle]]
          /\ UNCHANGED <<queues, delCount, hidden, s3>>
  /\ UNCHANGED <<now, lock, frame, nextId, nextHandle, pushOrder, issuedTo,
                 arrived, raced>>
  /\ UNCHANGED store

\* ------------------------------------------------ ChangeMessageVisibility
ChangeMessageVisibility(p, queue_name, receipt_handle, visibility_timeout) ==
  /\ pc[p] = "idle"
  /\ lock = NoProc
  /\ pc' = [pc EXCEPT ![p] = "done"]
  /\ IF queue_name \in DOMAIN queues
     THEN LET messages == queues[queue_name].messages
              c == change_visibility(messages, receipt_handle,
                                     visibility_timeout, now)
              id == IssuedId(receipt_handle)
              inflight == {i \in 1..Len(messages) :
                             /\ messages[i].id = id
                             /\ messages[i].receipt_handle = receipt_handle
                             /\ messages[i].visible_at > now}
          IN /\ queues' = [queues EXCEPT ![queue_name].messages = c.messages]
             /\ IF c.ok
                THEN /\ resp' = [resp EXCEPT ![p] =
                          [Ok("ChangeMessageVisibility", queue_name) EXCEPT
                             !.handle = receipt_handle,
                             !.timeout = visibility_timeout]]
                     /\ hidden' = [i \in DOMAIN hidden |->
                          IF i = id
                          THEN [hidden[i] EXCEPT
                                  !.cv = now + visibility_timeout * MsPerSec]
                          ELSE hidden[i]]
                     /\ s3' = IF visibility_timeout = 0 /\ inflight # {}
                              THEN [stage |-> 1, h |-> receipt_handle, id |-> id,
                                    rc |-> messages[CHOOSE i \in inflight : TRUE]
                                             .receive_count]
                              ELSE IF s3.stage = 1 /\ s3.h = receipt_handle
                                   THEN NoS3 ELSE s3
                ELSE /\ resp' = [resp EXCEPT ![p] =
                          [BadRequest("ChangeMessageVisibility", queue_name,
                                      ReceiptHandleIsInvalid) EXCEPT
                             !.handle = receipt_handle,
                             !.timeout = visibility_timeout]]
                     /\ UNCHANGED <<hidden, s3>>
     ELSE /\ resp' = [resp EXCEPT ![p] =
                [BadRequest("ChangeMessageVisibility", queue_name,
                            NonExistentQueue) EXCEPT
                   !.handle = receipt_handle, !.timeout = visibility_timeout]]
          /\ UNCHANGED <<queues, hidden, s3>>
  /\ UNCHANGED <<now, lock, frame, nextId, nextHandle, pushOrder, issuedTo,
                 delCount, arrived, raced>>
  /\ UNCHANGED store

\* ----------------------------------------------------- GetQueueAttributes
\* The attribute maps are sets of rows, one row per attribute name.
Row(name, value) == [name |-> name, value |-> value]
Names(rows) == {r.name : r \in rows}
Lookup(rows, name) == (CHOOSE r \in rows : r.name = name).value

\* AttributeStore.get: all the rows stored for the queue.
store_get(queue_name) == store[queue_name]

\* AttributeStore.set: upsert each pair.
store_set(rows, attrs) ==
  {r \in rows : r.name \notin Names(attrs)} \cup attrs

\* str::parse::<u32>: the number, or -1 for Err.
parse_u32(value) ==
  LET hits == {n \in 0..99 : ToString(n) = value}
  IN IF hits = {} THEN -1 ELSE CHOOSE n \in hits : TRUE

\* The sequences that list every element of the set once.
Orders(rows) ==
  {f \in [1..Cardinality(rows) -> rows] :
      \A i, j \in 1..Cardinality(rows) : i # j => f[i] # f[j]}

RECURSIVE Filter(_, _)
Filter(rows, keep) ==
  IF rows = <<>> THEN <<>>
  ELSE (IF keep[Head(rows).name] THEN <<Head(rows)>> ELSE <<>>)
       \o Filter(Tail(rows), keep)

\* The caller's AttributeName.N filters are read.
GqaStart(p, queue_name, requested) ==
  /\ pc[p] = "idle"
  /\ pc' = [pc EXCEPT ![p] = "gqa_store"]
  /\ frame' = [frame EXCEPT ![p] = [NoFrame EXCEPT
        !.action = "GetQueueAttributes", !.queue = queue_name,
        !.requested = requested]]
  /\ UNCHANGED <<now, queues, lock, resp, nextId, nextHandle, pushOrder,
                 issuedTo, delCount, hidden, arrived, raced, s3, store>>

\* The stored attributes are fetched, before the registry guard is taken; a
\* failed read yields no rows.
GqaRead(p, ok) ==
  /\ pc[p] = "gqa_store"
  /\ pc' = [pc EXCEPT ![p] = "gqa_lock"]
  /\ frame' = [frame EXCEPT ![p].db_attrs =
        IF ok THEN store_get(frame[p].queue) ELSE {}]
  /\ UNCHANGED <<now, queues, lock, resp, nextId, nextHandle, pushOrder,
                 issuedTo, delCount, hidden, arrived, raced, s3, store>>

\* The registry guard is taken, and approximate_number_of_messages reads
\* Instant::now() for the first count.
GqaVisible(p) ==
  /\ pc[p] = "gqa_lock"
  /\ lock = NoProc
  /\ IF frame[p].queue \in DOMAIN queues
     THEN /\ lock' = p
          /\ pc' = [pc EXCEPT ![p] = "gqa_not_visible"]
          /\ frame' = [frame EXCEPT ![p].visible =
                approximate_number_of_messages(
                   queues[frame[p].queue].messages, now)]
          /\ UNCHANGED resp
     ELSE /\ pc' = [pc EXCEPT ![p] = "done"]
          /\ resp' = [resp EXCEPT ![p] =
                BadRequest("GetQueueAttributes", frame[p].queue,
                           NonExistentQueue)]
          /\ UNCHANGED <<lock, frame>>
  /\ UNCHANGED <<now, queues, nextId, nextHandle, pushOrder, issuedTo,
                 delCount, hidden, arrived, raced, s3, store>>

\* The attribute lists the merge can produce: the computed attributes that
\* were asked for, then the stored rows that were asked for, in the map's
\* iteration order, without the row named VisibilityTimeout.
Merge(computed, db_attrs, requested) ==
  LET want_all == requested = {} \/ "All" \in requested
      wanted == [n \in Names(db_attrs) \cup {computed[i].name : i \in 1..3} |->
                   want_all \/ n \in requested]
  IN {Filter(computed, wanted)
        \o Filter(db, [n \in DOMAIN wanted |->
                         wanted[n] /\ n # "VisibilityTimeout"])
        : db \in Orders(db_attrs)}

\* approximate_number_of_messages_not_visible reads Instant::now() again,
\* still under the guard; the response is built and the guard dropped.
GqaNotVisible(p) ==
  /\ pc[p] = "gqa_not_visible"
  /\ lock = p
  /\ LET queue == queues[frame[p].queue]
         computed ==
          << Row("ApproximateNumberOfMessages", ToString(frame[p].visible)),
             Row("ApproximateNumberOfMessagesNotVisible",
                 ToString(approximate_number_of_messages_not_visible(
                             queue.messages, now))),
             Row("VisibilityTimeout",
                 ToString(queue.default_visibility_timeout)) >>
     IN \E attrs \in Merge(computed, frame[p].db_attrs, frame[p].requested) :
          resp' = [resp EXCEPT ![p] =
             [Ok("GetQueueAttributes", frame[p].queue) EXCEPT
                !.attributes = attrs]]
  /\ lock' = NoProc
  /\ pc' = [pc EXCEPT ![p] = "done"]
  /\ UNCHANGED <<now, queues, frame, nextId, nextHandle, pushOrder, issuedTo,
                 delCount, hidden, arrived, raced, s3, store>>

\* ----------------------------------------------------- SetQueueAttributes
\* The Attribute.N.Name / Attribute.N.Value pairs are parsed; an empty set
\* is refused.
SqaStart(p, queue_name, attrs) ==
  /\ pc[p] = "idle"
  /\ IF attrs = {}
     THEN /\ pc' = [pc EXCEPT ![p] = "done"]
          /\ resp' = [resp EXCEPT ![p] =
                BadRequest("SetQueueAttributes", queue_name,
                           "No attributes provided")]
          /\ UNCHANGED frame
     ELSE /\ pc' = [pc EXCEPT ![p] = "sqa_check"]
          /\ frame' = [frame EXCEPT ![p] = [NoFrame EXCEPT
                !.action = "SetQueueAttributes", !.queue = queue_name,
                !.attrs = attrs]]
          /\ UNCHANGED resp
  /\ UNCHANGED <<now, queues, lock, nextId, nextHandle, pushOrder, issuedTo,
                 delCount, hidden, arrived, raced, s3, store>>

\* The value the in-memory timeout is to be set to, or -1 when the request
\* carries no VisibilityTimeout that parses.
NewTimeout(attrs) ==
  IF "VisibilityTimeout" \in Names(attrs)
  THEN parse_u32(Lookup(attrs, "VisibilityTimeout"))
  ELSE -1

\* The queue's existence is checked under the guard, which is dropped again.
SqaCheck(p) ==
  /\ pc[p] = "sqa_check"
  /\ lock = NoProc
  /\ IF frame[p].queue \in DOMAIN queues
     THEN /\ pc' = [pc EXCEPT ![p] =
                IF NewTimeout(frame[p].attrs) >= 0
                THEN "sqa_update" ELSE "sqa_store"]
          /\ UNCHANGED resp
     ELSE /\ pc' = [pc EXCEPT ![p] = "done"]
          /\ resp' = [resp EXCEPT ![p] =
                BadRequest("SetQueueAttributes", frame[p].queue,
                           NonExistentQueue)]
  /\ UNCHANGED <<now, queues, lock, frame, nextId, nextHandle, pushOrder,
                 issuedTo, delCount, hidden, arrived, raced, s3, store>>

\* Mutant: the guard taken for the update is kept until the handler returns.
SqaUpdateKeepGuard(p) ==
  /\ pc[p] = "sqa_update"
  /\ lock = NoProc
  /\ lock' = p
  /\ queues' = IF frame[p].queue \in DOMAIN queues
               THEN [queues EXCEPT ![frame[p].queue].default_visibility_timeout
                                      = NewTimeout(frame[p].attrs)]
               ELSE queues
  /\ pc' = [pc EXCEPT ![p] = "sqa_store"]
  /\ UNCHANGED <<now, frame, resp, nextId, nextHandle, pushOrder,
                 issuedTo, delCount, hidden, arrived, raced, s3, store>>

\* Mutant: the in-memory timeout is not updated before the store write.
SqaUpdateSkip(p) ==
  /\ pc[p] = "sqa_update"
  /\ lock = NoProc
  /\ pc' = [pc EXCEPT ![p] = "sqa_store"]
  /\ UNCHANGED <<now, queues, lock, frame, resp, nextId, nextHandle, pushOrder,
                 issuedTo, delCount, hidden, arrived, raced, s3, store>>

\* The guard is taken a second time and default_visibility_timeout set.
SqaUpdate(p) ==
  /\ pc[p] = "sqa_update"
  /\ lock = NoProc
  /\ queues' = IF frame[p].queue \in DOMAIN queues
               THEN [queues EXCEPT ![frame[p].queue].default_visibility_timeout
                                      = NewTimeout(frame[p].attrs)]
               ELSE queues
  /\ pc' = [pc EXCEPT ![p] = "sqa_store"]
  /\ UNCHANGED <<now, lock, frame, resp, nextId, nextHandle, pushOrder,
                 issuedTo, delCount, hidden, arrived, raced, s3, store>>

\* The attributes are written to the store, with the guard not held; the
\* write succeeds or fails.
SqaStore(p, ok) ==
  /\ pc[p] = "sqa_store"
  /\ pc' = [pc EXCEPT ![p] = "done"]
  /\ IF ok
     THEN /\ store' = [store EXCEPT ![frame[p].queue] =
                          store_set(store[frame[p].queue], frame[p].attrs)]
          /\ resp' = [resp EXCEPT ![p] =
                Ok("SetQueueAttributes", frame[p].queue)]
     ELSE /\ resp' = [resp EXCEPT ![p] =
                [NoResp EXCEPT !.action = "SetQueueAttributes",
                               !.status = 500, !.queue = frame[p].queue,
                               !.error = "Failed to set attributes: "]]
          /\ UNCHANGED store
  /\ UNCHANGED <<now, queues, lock, frame, nextId, nextHandle, pushOrder,
                 issuedTo, delCount, hidden, arrived, raced, s3>>

\* ------------------------------------------------------------ GetQueueUrl
GetQueueUrl(p, queue_name) ==
  /\ pc[p] = "idle"
  /\ lock = NoProc
  /\ pc' = [pc EXCEPT ![p] = "done"]
  /\ resp' = [resp EXCEPT ![p] =
        IF queue_name \in DOMAIN queues
        THEN Ok("GetQueueUrl", queue_name)
        ELSE BadRequest("GetQueueUrl", queue_name, NonExistentQueue)]
  /\ UNCHANGED <<now, queues, lock, frame, nextId, nextHandle, pushOrder,
                 issuedTo, delCount, hidden, arrived, raced, s3, store>>

\* --------------------------------------------------------------- dispatch
\* Strings whose letters matter are sequences of characters.
UpperCase ==
  <<"A", "B", "C", "D", "E", "F", "G", "H", "I", "J", "K", "L", "M", "N",
  "O", "P", "Q", "R", "S", "T", "U", "V", "W", "X", "Y", "Z">>
LowerCase ==
  <<"a", "b", "c", "d", "e", "f", "g", "h", "i", "j", "k", "l", "m", "n",
  "o", "p", "q", "r", "s", "t", "u", "v", "w", "x", "y", "z">>

\* str::to_lowercase.
to_lowercase(str) ==
  [i \in 1..Len(str) |->
     IF \E k \in 1..Len(UpperCase) : UpperCase[k] = str[i]
     THEN LowerCase[CHOOSE k \in 1..Len(UpperCase) : UpperCase[k] = str[i]]
     ELSE str[i]]

\* str::starts_with.
starts_with(str, prefix) ==
  Len(str) >= Len(prefix) /\ SubSeq(str, 1, Len(prefix)) = prefix

AmazonSQS == <<"A", "m", "a", "z", "o", "n", "S", "Q", "S">>

\* The arms of the match on the lower-cased action name.
Arms ==
  {
    [patterns |-> {<<"a", "m", "a", "z", "o", "n", "s", "q", "s", ".",
                   "c", "r", "e", "a", "t", "e", "q", "u", "e", "u",
                   "e">>,
                   <<"c", "r", "e", "a", "t", "e", "q", "u", "e", "u",
                   "e">>},
     handler |-> "CreateQueue"],
    [patterns |-> {<<"a", "m", "a", "z", "o", "n", "s", "q", "s", ".",
                   "l", "i", "s", "t", "q", "u", "e", "u", "e", "s">>,
                   <<"l", "i", "s", "t", "q", "u", "e", "u", "e", "s">>},
     handler |-> "ListQueues"],
    [patterns |-> {<<"a", "m", "a", "z", "o", "n", "s", "q", "s", ".",
                   "s", "e", "n", "d", "m", "e", "s", "s", "a", "g",
                   "e">>,
                   <<"s", "e", "n", "d", "m", "e", "s", "s", "a", "g",
                   "e">>},
     handler |-> "SendMessage"],
    [patterns |-> {<<"a", "m", "a", "z", "o", "n", "s", "q", "s", ".",
                   "r", "e", "c", "e", "i", "v", "e", "m", "e", "s", "s",
                   "a", "g", "e">>,
                   <<"r", "e", "c", "e", "i", "v", "e", "m", "e", "s",
                   "s", "a", "g", "e">>},
     handler |-> "ReceiveMessage"],
    [patterns |-> {<<"a", "m", "a", "z", "o", "n", "s", "q", "s", ".",
                   "d", "e", "l", "e", "t", "e", "m", "e", "s", "s", "a",
                   "g", "e">>,
                   <<"d", "e", "l", "e", "t", "e", "m", "e", "s", "s",
                   "a", "g", "e">>},
     handler |-> "DeleteMessage"],
    [patterns |-> {<<"a", "m", "a", "z", "o", "n", "s", "q", "s", ".",
                   "c", "h", "a", "n", "g", "e", "m", "e", "s", "s", "a",
                   "g", "e", "v", "i", "s", "i", "b", "i", "l", "i", "t",
                   "y">>,
                   <<"c", "h", "a", "n", "g", "e", "m", "e", "s", "s",
                   "a", "g", "e", "v", "i", "s", "i", "b", "i", "l", "i",
                   "t", "y">>},
     handler |-> "ChangeMessageVisibility"],
    [patterns |-> {<<"a", "m", "a", "z", "o", "n", "s", "q", "s", ".",
                   "g", "e", "t", "q", "u", "e", "u", "e", "u", "r",
                   "l">>,
                   <<"g", "e", "t", "q", "u", "e", "u", "e", "u", "r",
                   "l">>},
     handler |-> "GetQueueUrl"],
    [patterns |-> {<<"a", "m", "a", "z", "o", "n", "s", "q", "s", ".",
                   "g", "e", "t", "q", "u", "e", "u", "e", "a", "t", "t",
                   "r", "i", "b", "u", "t", "e", "s">>,
                   <<"g", "e", "t", "q", "u", "e", "u", "e", "a", "t",
                   "t", "r", "i", "b", "u", "t", "e", "s">>},
     handler |-> "GetQueueAttributes"],
    [patterns |-> {<<"a", "m", "a", "z", "o", "n", "s", "q", "s", ".",
                   "s", "e", "t", "q", "u", "e", "u", "e", "a", "t", "t",
                   "r", "i", "b", "u", "t", "e", "s">>,
                   <<"s", "e", "t", "q", "u", "e", "u", "e", "a", "t",
                   "t", "r", "i", "b", "u", "t", "e", "s">>},
     handler |-> "SetQueueAttributes"]
  }

\* The x-amz-target header if the request has one, else the Action field of
\* the body.
get_action_name(request) ==
  IF request.has_target THEN request.target ELSE request.action

\* The handler the request is dispatched to, or the error it is refused with.
post_handler(request) ==
  LET action == get_action_name(request)
      hits == {a \in Arms : to_lowercase(action) \in a.patterns}
  IN IF starts_with(action, AmazonSQS)
     THEN "JSON is not supported yet"
     ELSE IF hits = {} THEN "Invalid action"
          ELSE (CHOOSE a \in hits : TRUE).handler

DispatchErrors == {"JSON is not supported yet", "Invalid action"}

\* POST /: the action is resolved and the handler started with the body's
\* parameters (the CreateQueue and ListQueues handlers are not part of the
\* model).
PostHandler(p, request, queue_name, message_body, receipt_handle) ==
  LET handler == post_handler(request) IN
  \/ /\ handler \in DispatchErrors
     /\ pc[p] = "idle"
     /\ pc' = [pc EXCEPT ![p] = "done"]
     /\ resp' = [resp EXCEPT ![p] = [NoResp EXCEPT !.status = 400,
                                                   !.error = handler]]
     /\ UNCHANGED <<now, queues, lock, frame, nextId, nextHandle, pushOrder,
                    issuedTo, delCount, hidden, arrived, raced, s3, store>>
  \/ handler = "SendMessage" /\ SendStart(p, queue_name, message_body)
  \/ handler = "ReceiveMessage" /\ RecvStart(p, queue_name, 1, 0, NoVT)
  \/ handler = "DeleteMessage" /\ DeleteMessage(p, queue_name, receipt_handle)
  \/ /\ handler = "ChangeMessageVisibility"
     /\ ChangeMessageVisibility(p, queue_name, receipt_handle, 0)
  \/ handler = "GetQueueUrl" /\ GetQueueUrl(p, queue_name)
  \/ handler = "GetQueueAttributes" /\ GqaStart(p, queue_name, {})
  \/ handler = "SetQueueAttributes" /\ SqaStart(p, queue_name, {})

\* ---------------------------------------------------------- specification
\* One client issuing requests one after the other: the queue engine under
\* every sequence of push, receive, delete and change_visibility.
Next ==
  \/ now + MsPerSec <= MaxSecs * MsPerSec /\ Tick(MsPerSec)
  \/ \E p \in Clients : Ack(p)
  \/ \E p \in Clients, q \in EngineQueues, b \in Bodies :
        nextId <= MaxSends /\ SendStart(p, q, b)
  \/ \E p \in Clients : SendPush(p)
  \/ \E p \in Clients, q \in EngineQueues, n \in EngineMaxNumbers,
        v \in VTInputs : RecvStart(p, q, n, 0, v)
  \/ \E p \in Clients :
        nextHandle + HandlesNeeded(p) <= MaxHandles + 1 /\ RecvPoll(p)
  \/ \E p \in Clients : RecvCheck(p)
  \/ \E p \in Clients, q \in EngineQueues, h \in HandleInputs :
        DeleteMessage(p, q, h)
  \/ \E p \in Clients, q \in EngineQueues, h \in HandleInputs, t \in CVInputs :
        ChangeMessageVisibility(p, q, h, t)

Spec == Init /\ [][Next]_vars

\* Two handler tasks at once, sending and long-polling; time advances in
\* steps of the poll interval.
NextPoll ==
  \/ now + PollIntervalMs <= MaxPollTicks * PollIntervalMs /\ Tick(PollIntervalMs)
  \/ \E p \in Procs : Ack(p)
  \/ \E p \in Procs, q \in EngineQueues, b \in Bodies :
        nextId <= MaxPollSends /\ SendStart(p, q, b)
  \/ \E p \in Procs : SendPush(p)
  \/ \E p \in Procs, q \in EngineQueues, w \in WaitInputs :
        RecvStart(p, q, 1, w, NoVT)
  \/ \E p \in Procs :
        nextHandle + HandlesNeeded(p) <= MaxPollHandles + 1 /\ RecvPoll(p)
  \/ \E p \in Procs : RecvCheck(p)
  \/ \E p \in Procs : RecvWake(p)

SpecPoll == Init /\ [][NextPoll]_vars

\* One client sending and receiving with every MaxNumberOfMessages, on a
\* queue that can hold more than ten visible messages.
NextCap ==
  \/ \E p \in Clients : Ack(p)
  \/ \E p \in Clients, q \in EngineQueues, b \in Bodies :
        nextId <= MaxCapSends /\ SendStart(p, q, b)
  \/ \E p \in Clients : SendPush(p)
  \/ \E p \in Clients, q \in EngineQueues, n \in MaxNumberInputs :
        RecvStart(p, q, n, 0, NoVT)
  \/ \E p \in Clients :
        nextHandle + HandlesNeeded(p) <= MaxCapHandles + 1 /\ RecvPoll(p)
  \/ \E p \in Clients : RecvCheck(p)

SpecCap == Init /\ [][NextCap]_vars

\* Two handler tasks sending at once, with receives and deletes in between.
NextSend ==
  \/ \E p \in Procs : Ack(p)
  \/ \E p \in Procs, q \in QueueNames, b \in Bodies :
        nextId <= MaxSendSends /\ SendStart(p, q, b)
  \/ \E p \in Procs : SendPush(p)
  \/ \E p \in Procs, q \in EngineQueues : RecvStart(p, q, 1, 0, NoVT)
  \/ \E p \in Procs :
        nextHandle + HandlesNeeded(p) <= MaxSendHandles + 1 /\ RecvPoll(p)
  \/ \E p \in Procs : RecvCheck(p)
  \/ \E p \in Procs, q \in EngineQueues, h \in 1..MaxSendHandles :
        DeleteMessage(p, q, h)

SpecSend == Init /\ [][NextSend]_vars

\* Two tasks sending, receiving and reading the queue attributes.
NextAttr ==
  \/ now + MsPerSec <= MaxSecs * MsPerSec /\ Tick(MsPerSec)
  \/ \E p \in Procs : Ack(p)
  \/ \E p \in Procs, q \in EngineQueues, b \in Bodies :
        nextId <= MaxSends /\ SendStart(p, q, b)
  \/ \E p \in Procs : SendPush(p)
  \/ \E p \in Procs, q \in EngineQueues : RecvStart(p, q, 1, 0, NoVT)
  \/ \E p \in Procs :
        nextHandle + HandlesNeeded(p) <= MaxHandles + 1 /\ RecvPoll(p)
  \/ \E p \in Procs : RecvCheck(p)
  \/ \E p \in Procs, q \in QueueNames : GqaStart(p, q, {})
  \/ \E p \in Procs : GqaRead(p, TRUE)
  \/ \E p \in Procs : GqaVisible(p)
  \/ \E p \in Procs : GqaNotVisible(p)

SpecAttr == Init /\ [][NextAttr]_vars

\* One client setting and reading the queue attributes, sending and
\* receiving.
NextSet ==
  \/ \E p \in Clients : Ack(p)
  \/ \E p \in Clients, q \in EngineQueues, b \in Bodies :
        nextId <= MaxSetSends /\ SendStart(p, q, b)
  \/ \E p \in Clients : SendPush(p)
  \/ \E p \in Clients, q \in EngineQueues : RecvStart(p, q, 1, 0, NoVT)
  \/ \E p \in Clients :
        nextHandle + HandlesNeeded(p) <= MaxSetHandles + 1 /\ RecvPoll(p)
  \/ \E p \in Clients : RecvCheck(p)
  \/ \E p \in Clients, q \in EngineQueues, rq \in RequestedInputs :
        GqaStart(p, q, rq)
  \/ \E p \in Clients, ok \in BOOLEAN : GqaRead(p, ok)
  \/ \E p \in Clients : GqaVisible(p)
  \/ \E p \in Clients : GqaNotVisible(p)
  \/ \E p \in Clients, q \in EngineQueues, attrs \in SetInputs :
        SqaStart(p, q, attrs)
  \/ \E p \in Clients : SqaCheck(p)
  \/ \E p \in Clients : SqaUpdate(p)
  \/ \E p \in Clients, ok \in BOOLEAN : SqaStore(p, ok)

SpecSet == Init /\ [][NextSet]_vars

\* Action names as a client may spell them.
to_uppercase(str) ==
  [i \in 1..Len(str) |->
     IF \E k \in 1..Len(LowerCase) : LowerCase[k] = str[i]
     THEN UpperCase[CHOOSE k \in 1..Len(LowerCase) : LowerCase[k] = str[i]]
     ELSE str[i]]
Spellings(str) == {str, to_lowercase(str), to_uppercase(str)}
Dot == <<".">>
SendMessageName == <<"S", "e", "n", "d", "M", "e", "s", "s", "a", "g", "e">>
GetQueueUrlName == <<"G", "e", "t", "Q", "u", "e", "u", "e", "U", "r", "l">>
UnknownName == <<"F", "o", "o">>
DispatchNames == {SendMessageName, GetQueueUrlName}
BodyActions ==
  UNION {Spellings(name) \cup Spellings(AmazonSQS \o Dot \o name)
           : name \in DispatchNames} \cup {UnknownName}
BodyRequest(action) ==
  [has_target |-> FALSE, target |-> <<>>, action |-> action]
TargetRequest(target) ==
  [has_target |-> TRUE, target |-> target, action |-> <<>>]
Requests ==
  {BodyRequest(action) : action \in BodyActions}
  \cup {TargetRequest(AmazonSQS \o Dot \o SendMessageName),
        TargetRequest(GetQueueUrlName)}

\* Two clients posting requests whose action is spelt in every accepted way.
NextDispatch ==
  \/ \E p \in Procs : Ack(p)
  \/ \E p \in Procs, request \in Requests, q \in QueueNames, b \in Bodies :
        nextId <= MaxDispatchSends /\ PostHandler(p, request, q, b, 1)
  \/ \E p \in Procs : SendPush(p)

SpecDispatch == Init /\ [][NextDispatch]_vars

\* One task sending and one long-polling until time runs out; a long
\* poll starts only while its deadline lies within the time modelled.
NextLive ==
  \/ now < MaxLiveTicks * PollIntervalMs /\ Tick(PollIntervalMs)
  \/ \E p \in Procs : Ack(p)
  \/ \E p \in Senders, q \in EngineQueues, b \in Bodies :
        nextId <= MaxLiveSends /\ SendStart(p, q, b)
  \/ \E p \in Senders : SendPush(p)
  \/ \E p \in Receivers, q \in EngineQueues, w \in WaitInputs :
        /\ now + w * MsPerSec <= MaxLiveTicks * PollIntervalMs
        /\ RecvStart(p, q, 1, w, NoVT)
  \/ \E p \in Receivers : RecvPoll(p)
  \/ \E p \in Receivers : RecvCheck(p)
  \/ \E p \in Receivers : RecvWake(p)

\* Time advances, and every handler that can take its next step (the lock
\* is granted, the sleep ends) eventually takes it.
SpecLive ==
  /\ Init /\ [][NextLive]_vars
  /\ WF_vars(now < MaxLiveTicks * PollIntervalMs /\ Tick(PollIntervalMs))
  /\ \A p \in Receivers :
       WF_vars(RecvPoll(p)) /\ WF_vars(RecvCheck(p)) /\ WF_vars(RecvWake(p))

\* Two handler tasks that suspend: long polls, attribute reads and writes,
\* with sends beside them.
NextLock ==
  \/ now < MaxLockTicks * PollIntervalMs /\ Tick(PollIntervalMs)
  \/ \E p \in Procs : Ack(p)
  \/ \E p \in Procs, q \in EngineQueues, b \in Bodies :
        nextId <= MaxLockSends /\ SendStart(p, q, b)
  \/ \E p \in Procs : SendPush(p)
  \/ \E p \in Procs, q \in EngineQueues : RecvStart(p, q, 1, 1, NoVT)
  \/ \E p \in Procs :
        nextHandle + HandlesNeeded(p) <= MaxLockHandles + 1 /\ RecvPoll(p)
  \/ \E p \in Procs : RecvCheck(p)
  \/ \E p \in Procs : RecvWake(p)
  \/ \E p \in Procs, q \in EngineQueues : GqaStart(p, q, {})
  \/ \E p \in Procs : GqaRead(p, TRUE)
  \/ \E p \in Procs : GqaVisible(p)
  \/ \E p \in Procs : GqaNotVisible(p)
  \/ \E p \in Procs, q \in EngineQueues, attrs \in LockSetInputs :
        SqaStart(p, q, attrs)
  \/ \E p \in Procs : SqaCheck(p)
  \/ \E p \in Procs : SqaUpdate(p)
  \/ \E p \in Procs, ok \in BOOLEAN : SqaStore(p, ok)

SpecLock == Init /\ [][NextLock]_vars

\* Two handler tasks at once, over every action, on a queue that exists and
\* on one that does not.
NextApi ==
  \/ now < MaxApiTicks * PollIntervalMs /\ Tick(PollIntervalMs)
  \/ \E p \in Procs : Ack(p)
  \/ \E p \in Procs, q \in QueueNames, b \in Bodies :
        nextId <= MaxApiSends /\ SendStart(p, q, b)
  \/ \E p \in Procs : SendPush(p)
  \/ \E p \in Procs, q \in QueueNames, w \in WaitInputs :
        RecvStart(p, q, 1, w, NoVT)
  \/ \E p \in Procs :
        nextHandle + HandlesNeeded(p) <= MaxApiHandles + 1 /\ RecvPoll(p)
  \/ \E p \in Procs : RecvCheck(p)
  \/ \E p \in Procs : RecvWake(p)
  \/ \E p \in Procs, q \in QueueNames, h \in 1..MaxApiHandles :
        DeleteMessage(p, q, h)
  \/ \E p \in Procs, q \in QueueNames, h \in 1..MaxApiHandles :
        ChangeMessageVisibility(p, q, h, 0)
  \/ \E p \in Procs, q \in QueueNames : GetQueueUrl(p, q)
  \/ \E p \in Procs, q \in QueueNames, rq \in RequestedInputs :
        GqaStart(p, q, rq)
  \/ \E p \in Procs : GqaRead(p, TRUE)
  \/ \E p \in Procs : GqaVisible(p)
  \/ \E p \in Procs : GqaNotVisible(p)
  \/ \E p \in Procs, q \in QueueNames, attrs \in ApiSetInputs :
        SqaStart(p, q, attrs)
  \/ \E p \in Procs : SqaCheck(p)
  \/ \E p \in Procs : SqaUpdate(p)
  \/ \E p \in Procs, ok \in BOOLEAN : SqaStore(p, ok)

SpecApi == Init /\ [][NextApi]_vars

\* One client and three messages with different bodies, at one instant: the
\* order of the sequence under push, receive, delete and change_visibility.
NextOrder ==
  \/ \E p \in Clients : Ack(p)
  \/ \E p \in Clients, q \in EngineQueues, b \in OrderBodies :
        nextId <= MaxOrderSends /\ SendStart(p, q, b)
  \/ \E p \in Clients : SendPush(p)
  \/ \E p \in Clients, q \in EngineQueues, n \in EngineMaxNumbers,
        v \in VTInputs : RecvStart(p, q, n, 0, v)
  \/ \E p \in Clients :
        nextHandle + HandlesNeeded(p) <= MaxOrderHandles + 1 /\ RecvPoll(p)
  \/ \E p \in Clients : RecvCheck(p)
  \/ \E p \in Clients, q \in EngineQueues, h \in 1..MaxOrderHandles :
        DeleteMessage(p, q, h)
  \/ \E p \in Clients, q \in EngineQueues, h \in 1..MaxOrderHandles,
        t \in CVInputs : ChangeMessageVisibility(p, q, h, t)

SpecOrder == Init /\ [][NextOrder]_vars

\* ------------------------------------------------------------------ steps
\* p's ReceiveMessage polls an existing queue in this step.
PollStep(p) ==
  /\ pc[p] = "recv_poll"
  /\ pc'[p] # "recv_poll"
  /\ frame[p].queue \in DOMAIN queues

\* The messages that poll returned.
Polled(p) == IF pc'[p] = "done" THEN resp'[p].messages ELSE <<>>

\* p's DeleteMessage or ChangeMessageVisibility runs on an existing queue.
HandleStep(p) ==
  /\ pc[p] = "idle"
  /\ pc'[p] = "done"
  /\ resp'[p].action \in {"DeleteMessage", "ChangeMessageVisibility"}
  /\ resp'[p].queue \in DOMAIN queues

PushPos(id) == CHOOSE k \in 1..Len(pushOrder) : pushOrder[k] = id
IndexOf(messages, id) == CHOOSE k \in 1..Len(messages) : messages[k].id = id
DeletedIds == {IssuedId(h) : h \in DOMAIN delCount}

\* Handle h was issued for a message that has since been received again.
Stale(messages, h) ==
  /\ h \in DOMAIN issuedTo
  /\ \E i \in 1..Len(messages) :
        messages[i].id = issuedTo[h] /\ messages[i].receipt_handle # h

\* ------------------------------------------------------------------ claims
\* C1: every receive returns messages in push order, and of two messages
\* visible at that receive the later-pushed one is returned only together
\* with, and after, the earlier-pushed one.
C1_FifoForVisible ==
  [][\A p \in Procs : PollStep(p) =>
       LET messages == queues[frame[p].queue].messages
           got == Polled(p)
       IN /\ \A i, j \in 1..Len(got) :
               i < j => PushPos(got[i].id) < PushPos(got[j].id)
          /\ \A a, b \in 1..Len(messages) :
               ( /\ PushPos(messages[a].id) < PushPos(messages[b].id)
                 /\ messages[a].visible_at <= now
                 /\ messages[b].visible_at <= now
                 /\ messages[b].id \in IdSet(got) )
               => /\ messages[a].id \in IdSet(got)
                  /\ IndexOf(got, messages[a].id) < IndexOf(got, messages[b].id)
    ]_vars

\* A receive skipped an invisible message and returned the one pushed after it.
C1_Witness ==
  \E p \in Procs :
     /\ pc[p] = "done"
     /\ resp[p].action = "ReceiveMessage"
     /\ Len(resp[p].messages) = 1
     /\ Len(pushOrder) = 2
     /\ resp[p].messages[1].id = pushOrder[2]
     /\ resp[p].queue \in DOMAIN queues
     /\ Ids(queues[resp[p].queue].messages) = pushOrder

\* C2: for every receipt handle at most one delete_by_receipt_handle
\* returns true.
C2_ExactlyOnceHandle == \A h \in DOMAIN delCount : delCount[h] <= 1

\* A second DeleteMessage with an already deleted handle was rejected.
C2_Witness ==
  \E p \in Procs :
     /\ pc[p] = "done"
     /\ resp[p].action = "DeleteMessage"
     /\ resp[p].status = 400
     /\ resp[p].handle \in DOMAIN delCount
     /\ delCount[resp[p].handle] = 1

\* C3: every receive of a message issues a receipt handle that was never
\* issued for that message before, and DeleteMessage and
\* ChangeMessageVisibility with the handle of an earlier receive of a message
\* that has been received again are rejected and change nothing.
C3_HandleRotation ==
  [][\A p \in Procs :
       /\ PollStep(p) =>
            \A i \in 1..Len(Polled(p)) :
               /\ Polled(p)[i].receipt_handle # NoHandle
               /\ \A h \in DOMAIN issuedTo :
                    issuedTo[h] = Polled(p)[i].id
                    => Polled(p)[i].receipt_handle # h
       /\ ( HandleStep(p)
            /\ Stale(queues[resp'[p].queue].messages, resp'[p].handle) )
          => /\ resp'[p].status = 400
             /\ resp'[p].error = ReceiptHandleIsInvalid
             /\ queues' = queues
    ]_vars

\* A message was received twice and a request with its first handle failed.
C3_Witness ==
  \E p \in Procs :
     /\ pc[p] = "done"
     /\ resp[p].action \in {"DeleteMessage", "ChangeMessageVisibility"}
     /\ resp[p].status = 400
     /\ resp[p].queue \in DOMAIN queues
     /\ Stale(queues[resp[p].queue].messages, resp[p].handle)
     /\ \E i \in 1..Len(queues[resp[p].queue].messages) :
           queues[resp[p].queue].messages[i].receive_count = 2

\* C4: no receive returns a message for whose handle a DeleteMessage has
\* succeeded.
C4_DeleteFinality ==
  [][\A p \in Procs : PollStep(p) =>
       \A i \in 1..Len(Polled(p)) : Polled(p)[i].id \notin DeletedIds
    ]_vars

\* After a successful delete of one message a receive returned another one.
C4_Witness ==
  \E p \in Procs :
     /\ pc[p] = "done"
     /\ resp[p].action = "ReceiveMessage"
     /\ resp[p].messages # <<>>
     /\ DeletedIds # {}
     /\ \A i \in 1..Len(resp[p].messages) :
           /\ resp[p].messages[i].id \notin DeletedIds
           /\ \A h \in DOMAIN delCount : resp[p].messages[i].receipt_handle > h

\* The visibility window of message id, as the requests that set it define
\* it, is over: the timeout of its last receive has run out, or the last
\* successful ChangeMessageVisibility moved it to a time that is reached.
WindowElapsed(id) ==
  /\ id \in DOMAIN hidden
  /\ hidden[id].timed
  /\ IF hidden[id].cv = NoTime THEN now >= hidden[id].until
     ELSE now >= hidden[id].cv

\* No receive returns a message before the timeout of its last receive has
\* run out or a ChangeMessageVisibility has moved it to a reached time.
HiddenDuringWindow(p) ==
  \A i \in 1..Len(Polled(p)) :
     LET id == Polled(p)[i].id
     IN (id \in DOMAIN hidden /\ hidden[id].timed) =>
          \/ now >= hidden[id].until
          \/ hidden[id].cv # NoTime /\ now >= hidden[id].cv

\* The poll returns message k of the queue with its receive_count raised by 1.
ReturnedAgain(p, messages, k) ==
  \E i \in 1..Len(Polled(p)) :
     /\ Polled(p)[i].id = messages[k].id
     /\ Polled(p)[i].receive_count = messages[k].receive_count + 1

\* C5 as stated: a message received with a timeout t > 0 is hidden until its
\* window is over, and once it is over the next receive returns it with
\* receive_count + 1.
C5_Original ==
  [][\A p \in Procs : PollStep(p) =>
       LET messages == queues[frame[p].queue].messages
       IN /\ HiddenDuringWindow(p)
          /\ \A k \in 1..Len(messages) :
               (messages[k].receive_count >= 1 /\ WindowElapsed(messages[k].id))
               => ReturnedAgain(p, messages, k)
    ]_vars

\* C5 amended: a message received with a timeout t > 0 is hidden until its
\* window is over, and once it is over the next receive returns it with
\* receive_count + 1 provided fewer than max visible messages are ahead of it
\* in the queue.
C5_VisibilityTimeout ==
  [][\A p \in Procs : PollStep(p) =>
       LET messages == queues[frame[p].queue].messages
       IN /\ HiddenDuringWindow(p)
          /\ \A k \in 1..Len(messages) :
               ( /\ messages[k].receive_count >= 1
                 /\ WindowElapsed(messages[k].id)
                 /\ Cardinality({j \in 1..(k - 1) : messages[j].visible_at <= now})
                      < frame[p].max )
               => ReturnedAgain(p, messages, k)
    ]_vars

\* A message received with a timeout of one second or more was returned a
\* second time, after a first receive that hid it.
C5_Witness ==
  \E p \in Procs :
     /\ pc[p] = "done"
     /\ resp[p].action = "ReceiveMessage"
     /\ \E i \in 1..Len(resp[p].messages) :
           /\ resp[p].messages[i].receive_count = 2
           /\ resp[p].messages[i].first_received_at + MsPerSec
                <= resp[p].messages[i].visible_at
           /\ now >= MsPerSec

\* C10: after ChangeMessageVisibility(h, 0) succeeded on the in-flight
\* message m, the next receive, with no visible message ahead of m, returns
\* m first with receive_count + 1 and a handle other than h, and a
\* DeleteMessage with h after that receive fails with ReceiptHandleIsInvalid.
C10_ChangeVisibilityToZero ==
  [][\A p \in Procs :
       /\ ( PollStep(p) /\ s3.stage = 1
            /\ HeadOfVisible(queues[frame[p].queue].messages, s3.id, now) )
          => /\ Polled(p) # <<>>
             /\ Polled(p)[1].id = s3.id
             /\ Polled(p)[1].receive_count = s3.rc + 1
             /\ Polled(p)[1].receipt_handle \notin {NoHandle, s3.h}
       /\ ( HandleStep(p) /\ s3.stage = 2
            /\ resp'[p].action = "DeleteMessage"
            /\ resp'[p].handle = s3.h )
          => /\ resp'[p].status = 400
             /\ resp'[p].error = ReceiptHandleIsInvalid
    ]_vars

\* The whole scenario ran: the handle was zeroed, the message received again
\* and the DeleteMessage with the old handle rejected.
C10_Witness ==
  \E p \in Procs :
     /\ pc[p] = "done"
     /\ s3.stage = 2
     /\ resp[p].action = "DeleteMessage"
     /\ resp[p].handle = s3.h
     /\ resp[p].status = 400
     /\ \E i \in 1..Len(queues[resp[p].queue].messages) :
           /\ queues[resp[p].queue].messages[i].id = s3.id
           /\ queues[resp[p].queue].messages[i].receive_count = s3.rc + 1

AttributeValue(attributes, name) ==
  attributes[CHOOSE i \in 1..Len(attributes) : attributes[i].name = name].value

\* C6: the two counts GetQueueAttributes reports, taken under one lock
\* acquisition, add up to the number of messages in the queue.
C6_CountConservation ==
  [][\A p \in Procs :
       (pc[p] = "gqa_not_visible" /\ pc'[p] = "done") =>
          parse_u32(AttributeValue(resp'[p].attributes,
                                   "ApproximateNumberOfMessages"))
          + parse_u32(AttributeValue(resp'[p].attributes,
                                     "ApproximateNumberOfMessagesNotVisible"))
          = Len(queues[frame[p].queue].messages)
    ]_vars

\* The number of messages a poll must return: MaxNumberOfMessages clamped to
\* [1, 10], or all the visible messages when there are fewer.
ExpectedCount(p) ==
  LET c == IF frame[p].n < 1 THEN 1 ELSE IF frame[p].n > 10 THEN 10
           ELSE frame[p].n
      v == Cardinality(VisibleIdx(queues[frame[p].queue].messages, now))
  IN Min(c, v)

\* C7 as stated: a poll returns exactly min(c, v) messages, never more than
\* min(n, 10), and at least one when a message is visible.
C7_Original ==
  [][\A p \in Procs : PollStep(p) =>
       /\ Len(Polled(p)) = ExpectedCount(p)
       /\ Len(Polled(p)) <= Min(frame[p].n, 10)
       /\ VisibleIdx(queues[frame[p].queue].messages, now) # {}
            => Len(Polled(p)) >= 1
    ]_vars

\* C7 amended: a poll returns exactly min(c, v) messages, never more than
\* min(max(n, 1), 10), and at least one when a message is visible.
C7_ReceiveCap ==
  [][\A p \in Procs : PollStep(p) =>
       /\ Len(Polled(p)) = ExpectedCount(p)
       /\ Len(Polled(p)) <= Min(Max(frame[p].n, 1), 10)
       /\ VisibleIdx(queues[frame[p].queue].messages, now) # {}
            => Len(Polled(p)) >= 1
    ]_vars

\* A request for 11 messages on a queue with 11 visible ones returned 10.
C7_Witness ==
  \E p \in Procs :
     /\ pc[p] = "done"
     /\ resp[p].action = "ReceiveMessage"
     /\ frame[p].n = 11
     /\ Len(resp[p].messages) = 10
     /\ Len(queues[resp[p].queue].messages) = 11
     /\ queues[resp[p].queue].messages[11].receive_count = 0

\* The ids pushed under the lock, in lock order, less those deleted.
Surviving(order) ==
  SelectSeq(order, LAMBDA id : id \notin DeletedIds)

\* C8: the queue holds the messages of all completed pushes in the order in
\* which the handlers entered the lock, each once; nothing queued before is
\* lost or moved by a concurrent send.
C8_ConcurrentSends ==
  \A q \in DOMAIN queues :
     /\ Ids(queues[q].messages) = Surviving(pushOrder)
     /\ \A p \in Procs :
          ( pc[p] = "done" /\ resp[p].action = "SendMessage"
            /\ resp[p].status = 200 /\ resp[p].queue = q
            /\ resp[p].message_id \notin DeletedIds )
          => Cardinality({i \in 1..Len(queues[q].messages) :
                            queues[q].messages[i].id = resp[p].message_id}) = 1

\* Two sends overlapped on a queue holding an earlier message, and the one
\* that started later entered the lock first.
C8_Witness ==
  /\ \A p \in Procs :
        pc[p] = "done" /\ resp[p].action = "SendMessage" /\ resp[p].status = 200
  /\ Ids(queues["q1"].messages) = <<1, 3, 2>>
  /\ resp["p1"].message_id # resp["p2"].message_id

\* p's ReceiveMessage ended with an empty result.
ReturnedEmpty(p) ==
  /\ pc[p] = "done"
  /\ resp[p].action = "ReceiveMessage"
  /\ resp[p].status = 200
  /\ resp[p].messages = <<>>

\* The messages sent to p's queue while p was waiting and before its
\* deadline that no receiver has taken.
Untaken(p) ==
  {i \in 1..Len(queues[resp[p].queue].messages) :
     /\ queues[resp[p].queue].messages[i].id \in arrived[p]
     /\ queues[resp[p].queue].messages[i].receive_count = 0}

\* C9 as stated: a waiting ReceiveMessage never returns empty when a message
\* was sent to its queue before its deadline and nobody else took it.
C9_Original == \A p \in Procs : ReturnedEmpty(p) => Untaken(p) = {}

\* C9 amended: a waiting ReceiveMessage returns empty with such a message in
\* the queue only if the message was pushed between the receiver's last
\* poll and the deadline check that followed it.
C9_LongPollDelivery ==
  \A p \in Procs : ReturnedEmpty(p) =>
     \A i \in Untaken(p) : queues[resp[p].queue].messages[i].id \in raced[p]

\* A long poll that had found the queue empty returned a message sent while
\* it was waiting.
C9_Witness ==
  \E p \in Procs :
     /\ pc[p] = "done"
     /\ resp[p].action = "ReceiveMessage"
     /\ frame[p].wait > 0
     /\ resp[p].messages # <<>>
     /\ resp[p].messages[1].id \in arrived[p]
     /\ resp[p].messages[1].receive_count = 1

\* Some message of the sequence stores handle h.
Stored(messages, h) ==
  \E i \in 1..Len(messages) : messages[i].receipt_handle = h

\* Some message of the sequence stores handle h and is still hidden at t.
InFlight(messages, h, t) ==
  \E i \in 1..Len(messages) :
     messages[i].receipt_handle = h /\ messages[i].visible_at > t

\* C11 as stated: DeleteMessage and ChangeMessageVisibility with a handle
\* that matches no in-flight message (received, not deleted, window not yet
\* elapsed) are answered 400 ReceiptHandleIsInvalid and change nothing.
C11_Original ==
  [][\A p \in Procs :
       ( HandleStep(p)
         /\ ~InFlight(queues[resp'[p].queue].messages, resp'[p].handle, now) )
       => /\ resp'[p].status = 400
          /\ resp'[p].error = ReceiptHandleIsInvalid
          /\ queues' = queues
    ]_vars

\* C11 amended: DeleteMessage and ChangeMessageVisibility with a handle that
\* is not the handle stored on any message of the queue are answered 400
\* ReceiptHandleIsInvalid and change nothing.
C11_InvalidReceiptHandle ==
  [][\A p \in Procs :
       ( HandleStep(p)
         /\ ~Stored(queues[resp'[p].queue].messages, resp'[p].handle) )
       => /\ resp'[p].status = 400
          /\ resp'[p].error = ReceiptHandleIsInvalid
          /\ queues' = queues
    ]_vars

\* A handle that was never issued was rejected while another message of the
\* queue was in flight.
C11_Witness ==
  \E p \in Procs :
     /\ pc[p] = "done"
     /\ resp[p].action \in {"DeleteMessage", "ChangeMessageVisibility"}
     /\ resp[p].status = 400
     /\ resp[p].error = ReceiptHandleIsInvalid
     /\ resp[p].handle \notin DOMAIN issuedTo
     /\ resp[p].queue \in DOMAIN queues
     /\ \E i \in 1..Len(queues[resp[p].queue].messages) :
           /\ queues[resp[p].queue].messages[i].receipt_handle # NoHandle
           /\ queues[resp[p].queue].messages[i].visible_at > now

\* C19: delete_by_receipt_handle and change_visibility succeed exactly when
\* the handle is stored on a message of the sequence, whether or not its
\* window has elapsed; a stored handle changes only when a receive returns
\* the message.
C19_HandleEquality ==
  [][/\ \A p \in Procs : HandleStep(p) =>
          ( resp'[p].status = 200
            <=> Stored(queues[resp'[p].queue].messages, resp'[p].handle) )
     /\ \A q \in DOMAIN queues :
          \A i \in 1..Len(queues[q].messages), j \in 1..Len(queues'[q].messages) :
             ( /\ queues[q].messages[i].id = queues'[q].messages[j].id
               /\ queues[q].messages[i].receipt_handle
                    # queues'[q].messages[j].receipt_handle )
             => \E p \in Procs :
                   /\ PollStep(p)
                   /\ queues[q].messages[i].id \in IdSet(Polled(p))
    ]_vars

\* A ChangeMessageVisibility succeeded with the handle of a message whose
\* window had elapsed and that had not been received again.
C19_Witness ==
  \E p \in Procs :
     /\ pc[p] = "done"
     /\ resp[p].action = "ChangeMessageVisibility"
     /\ resp[p].status = 200
     /\ resp[p].timeout = 1
     /\ now = MsPerSec
     /\ resp[p].queue \in DOMAIN queues
     /\ \E i \in 1..Len(queues[resp[p].queue].messages) :
           /\ queues[resp[p].queue].messages[i].receipt_handle = resp[p].handle
           /\ queues[resp[p].queue].messages[i].receive_count = 1
           /\ queues[resp[p].queue].messages[i].first_received_at = 0
           /\ queues[resp[p].queue].messages[i].visible_at = 2 * MsPerSec

\* C20 as stated: every message is either visible without a handle or
\* hidden with a handle.
C20_Original ==
  \A q \in DOMAIN queues : \A i \in 1..Len(queues[q].messages) :
     \/ /\ queues[q].messages[i].visible_at <= now
        /\ queues[q].messages[i].receipt_handle = NoHandle
     \/ /\ queues[q].messages[i].visible_at > now
        /\ queues[q].messages[i].receipt_handle # NoHandle

\* C20 amended: a message stores a handle exactly when it has been received
\* at least once, and a message without a handle is visible; a received
\* message keeps its last handle after its window has elapsed.
C20_MessageStates ==
  \A q \in DOMAIN queues : \A i \in 1..Len(queues[q].messages) :
     /\ queues[q].messages[i].receipt_handle = NoHandle
          <=> queues[q].messages[i].receive_count = 0
     /\ queues[q].messages[i].receipt_handle = NoHandle
          => queues[q].messages[i].visible_at <= now
     /\ queues[q].messages[i].visible_at > now
          => queues[q].messages[i].receipt_handle # NoHandle

\* One message is in flight, one has never been received, and time has
\* moved on since the send.
C20_Witness ==
  /\ now > 0
  /\ \E q \in DOMAIN queues :
       \E i, j \in 1..Len(queues[q].messages) :
          /\ queues[q].messages[i].receipt_handle # NoHandle
          /\ queues[q].messages[i].visible_at > now
          /\ queues[q].messages[j].receipt_handle = NoHandle
          /\ queues[q].messages[j].receive_count = 0

\* A handler of p ends in this step with a response.
Answered(p) == pc[p] # "done" /\ pc'[p] = "done"

\* The actions that name a queue.
QueueActions ==
  {"GetQueueUrl", "GetQueueAttributes", "SetQueueAttributes", "SendMessage",
   "ReceiveMessage", "DeleteMessage", "ChangeMessageVisibility"}

\* C12: every action that names a queue missing from the registry is
\* answered 400 with the body "AWS.SimpleQueueService.NonExistentQueue;
\* Queue: <name>", and the registry, the queues and the store stay as they
\* are.
C12_NonExistentQueue ==
  [][\A p \in Procs :
       ( /\ Answered(p)
         /\ resp'[p].action \in QueueActions
         /\ resp'[p].queue \notin DOMAIN queues
         /\ resp'[p].error # "No attributes provided" )
       => /\ resp'[p].status = 400
          /\ resp'[p].error = NonExistentQueue
          /\ queues' = queues
          /\ store' = store
    ]_vars

\* C13: once a SetQueueAttributes carrying VisibilityTimeout = v has
\* succeeded, GetQueueAttributes reports VisibilityTimeout = v and a receive
\* without an override hides the message for v seconds.  The store row is
\* the value of the last such request.
C13_SetTakesEffect ==
  [][\A p \in Clients :
       LET q == frame[p].queue IN
       /\ ( /\ pc[p] = "gqa_not_visible" /\ pc'[p] = "done"
            /\ "VisibilityTimeout" \in Names(store[q]) )
          => AttributeValue(resp'[p].attributes, "VisibilityTimeout")
               = Lookup(store[q], "VisibilityTimeout")
       /\ ( /\ PollStep(p) /\ frame[p].vt = NoVT
            /\ "VisibilityTimeout" \in Names(store[q]) )
          => \A i \in 1..Len(Polled(p)) :
                ToString((Polled(p)[i].visible_at - now) \div MsPerSec)
                  = Lookup(store[q], "VisibilityTimeout")
    ]_vars

\* C14: a GetQueueAttributes response names each attribute at most once,
\* and the three computed attributes carry the in-memory values.
C14_AttributeMerge ==
  [][\A p \in Procs :
       (pc[p] = "gqa_not_visible" /\ pc'[p] = "done") =>
          LET attrs == resp'[p].attributes
              queue == queues[frame[p].queue]
          IN /\ \A i, j \in 1..Len(attrs) :
                  i # j => attrs[i].name # attrs[j].name
             /\ \A i \in 1..Len(attrs) :
                  /\ attrs[i].name = "ApproximateNumberOfMessages"
                       => attrs[i].value = ToString(frame[p].visible)
                  /\ attrs[i].name = "ApproximateNumberOfMessagesNotVisible"
                       => attrs[i].value =
                            ToString(approximate_number_of_messages_not_visible(
                                        queue.messages, now))
                  /\ attrs[i].name = "VisibilityTimeout"
                       => attrs[i].value =
                            ToString(queue.default_visibility_timeout)
    ]_vars

\* C15: every successful response carries a ResponseMetadata element with a
\* RequestId, and no two responses carry the same RequestId.
C15_ResponseMetadata ==
  /\ \A p \in Procs :
       (pc[p] = "done" /\ resp[p].status = 200)
       => resp[p].metadata = "ResponseMetadata" /\ resp[p].request_id # 0
  /\ \A p, r \in Procs :
       ( p # r /\ pc[p] = "done" /\ pc[r] = "done"
         /\ resp[p].status = 200 /\ resp[r].status = 200 )
       => resp[p].request_id # resp[r].request_id

\* C16: a request without x-amz-target whose Action is AmazonSQS.<Name> or
\* <Name>, in any letter case, takes exactly the step that the request with
\* Action = <Name> takes.
C16_ActionResolution ==
  [][\A p \in Procs, q \in QueueNames, b \in Bodies, name \in DispatchNames :
       \A action \in Spellings(name) \cup Spellings(AmazonSQS \o Dot \o name) :
          PostHandler(p, BodyRequest(action), q, b, 1)
          <=> PostHandler(p, BodyRequest(name), q, b, 1)
    ]_vars

\* The places where a handler is suspended: in the long-poll sleep, or
\* about to call the AttributeStore.
Suspended == {"recv_sleep", "gqa_store", "sqa_store"}

\* C17: a handler that sleeps or calls the store does not hold the registry
\* guard, so whenever every other handler is suspended, idle or finished, a
\* SendMessage waiting for the guard can take it.
C17_LockDiscipline ==
  /\ \A p \in Procs : pc[p] \in Suspended => lock # p
  /\ \A p \in Procs :
       ( /\ pc[p] = "send_lock"
         /\ \A r \in Procs \ {p} : pc[r] \in Suspended \cup {"idle", "done"} )
       => ENABLED SendPush(p)

\* A SendMessage pushed its message while the other handler was asleep in
\* its long poll.
C17_Witness ==
  \E p, r \in Procs :
     /\ pc[p] = "recv_sleep"
     /\ frame[p].polled
     /\ pc[r] = "done"
     /\ resp[r].action = "SendMessage"
     /\ resp[r].status = 200
     /\ resp[r].queue = frame[p].queue
     /\ resp[r].message_id \in arrived[p]

\* p is inside a ReceiveMessage on a queue that exists.
Receiving(p) ==
  /\ pc[p] \in {"recv_poll", "recv_check", "recv_sleep"}
  /\ frame[p].queue \in DOMAIN queues

\* C18: every ReceiveMessage on an existing queue returns; with
\* WaitTimeSeconds = 0 it polls once and never sleeps; it returns empty only
\* right after a poll that found no visible message, at or after the
\* deadline.
C18_LongPollTermination ==
  /\ \A p \in Procs : Receiving(p) ~> pc[p] = "done"
  /\ [](\A p \in Procs :
          /\ (Receiving(p) /\ frame[p].wait = 0)
               => pc[p] # "recv_sleep" /\ frame[p].polls <= 1
          /\ ( pc[p] = "done" /\ resp[p].action = "ReceiveMessage"
               /\ resp[p].status = 200 /\ frame[p].wait = 0 )
               => frame[p].polls = 1)
  /\ [][\A p \in Procs :
          /\ (PollStep(p) /\ Polled(p) = <<>>)
               => VisibleIdx(queues[frame[p].queue].messages, now) = {}
          /\ ( Answered(p) /\ resp'[p].action = "ReceiveMessage"
               /\ resp'[p].status = 200 /\ resp'[p].messages = <<>> )
               => /\ pc[p] = "recv_check"
                  /\ frame[p].polls >= 1
                  /\ now >= frame[p].deadline
      ]_vars

\* A long poll of one second polled six times, slept in between and
\* returned empty at its deadline.
C18_Witness ==
  \E p \in Procs :
     /\ ReturnedEmpty(p)
     /\ frame[p].wait = 1
     /\ frame[p].polls = 6
     /\ now = frame[p].deadline

\* The handler of p has just pushed its message.
PushStep(p) ==
  /\ pc[p] = "send_lock"
  /\ pc'[p] = "done"
  /\ resp'[p].status = 200

\* C21: in every reachable state a message with receive_count = 0 has no
\* first_received_at and no receipt_handle; the message a push appends has
\* receive_count 0 and is visible at once.
C21_MessageInvariant ==
  /\ [](\A q \in DOMAIN queues : \A i \in 1..Len(queues[q].messages) :
          queues[q].messages[i].receive_count = 0
          => /\ queues[q].messages[i].first_received_at = NoTime
             /\ queues[q].messages[i].receipt_handle = NoHandle)
  /\ [][\A p \in Procs : PushStep(p) =>
          LET messages == queues'[resp'[p].queue].messages
              m == messages[Len(messages)]
          IN /\ Len(messages) = Len(queues[resp'[p].queue].messages) + 1
             /\ m.id = resp'[p].message_id
             /\ m.receive_count = 0
             /\ m.visible_at <= now'
             /\ approximate_number_of_messages(messages, now')
                  = approximate_number_of_messages(
                       queues[resp'[p].queue].messages, now) + 1
       ]_vars

\* A message has just been pushed behind one that was received earlier.
C21_Witness ==
  \E p \in Procs :
     /\ pc[p] = "done"
     /\ resp[p].action = "SendMessage"
     /\ resp[p].status = 200
     /\ LET messages == queues[resp[p].queue].messages
        IN /\ Len(messages) = 2
           /\ messages[1].receive_count = 1
           /\ messages[1].first_received_at # NoTime
           /\ messages[1].receipt_handle # NoHandle
           /\ messages[2].id = resp[p].message_id
           /\ messages[2].receive_count = 0
           /\ messages[2].first_received_at = NoTime
           /\ messages[2].receipt_handle = NoHandle

\* The number of receives that have returned message `id`: each one issued a
\* handle for it.
TimesReturned(issued, id) ==
  Cardinality({h \in DOMAIN issued : issued[h] = id})

\* C22: the receive_count of a returned snapshot is the number of receives,
\* this one included, that have returned the message; a receive of a message
\* adds exactly 1 to its count and no other step changes it.
C22_ReceiveCount ==
  [][/\ \A p \in Procs : PollStep(p) =>
          \A k \in 1..Len(Polled(p)) :
             Polled(p)[k].receive_count
               = TimesReturned(issuedTo', Polled(p)[k].id)
     /\ \A q \in DOMAIN queues :
          \A i \in 1..Len(queues[q].messages), j \in 1..Len(queues'[q].messages) :
             queues[q].messages[i].id = queues'[q].messages[j].id
             => queues'[q].messages[j].receive_count
                  = queues[q].messages[i].receive_count
                    + IF \E p \in Procs :
                            /\ PollStep(p)
                            /\ queues[q].messages[i].id \in IdSet(Polled(p))
                      THEN 1 ELSE 0
    ]_vars

\* A receive returned, for the second time, a message first received at an
\* earlier instant.
C22_Witness ==
  \E p \in Procs :
     /\ pc[p] = "done"
     /\ resp[p].action = "ReceiveMessage"
     /\ resp[p].status = 200
     /\ Len(resp[p].messages) >= 1
     /\ resp[p].messages[1].receive_count = 2
     /\ resp[p].messages[1].first_received_at < now
     /\ TimesReturned(issuedTo, resp[p].messages[1].id) = 2

\* The ids and bodies of a sequence of messages, in order.
Contents(messages) ==
  [i \in 1..Len(messages) |-> <<messages[i].id, messages[i].message_body>>]

\* Sequence `after` is sequence `before` without its element at pos.
Without(before, after, pos) ==
  /\ Len(after) = Len(before) - 1
  /\ \A i \in 1..Len(after) :
        after[i] = IF i < pos THEN before[i] ELSE before[i + 1]

\* p's handler of the given action has just answered with the given status.
HandleResult(p, action, status) ==
  /\ HandleStep(p)
  /\ resp'[p].action = action
  /\ resp'[p].status = status

\* C23: receive and change_visibility leave the sequence of ids and bodies
\* as it was; push appends one message at the tail; a successful
\* delete_by_receipt_handle removes exactly one message and keeps the others
\* in their order; nothing else touches the sequence.
C23_PositionStability ==
  [][\A q \in DOMAIN queues :
        LET before == Contents(queues[q].messages)
            after == Contents(queues'[q].messages)
        IN IF \E p \in Procs : PushStep(p) /\ resp'[p].queue = q
           THEN \E p \in Procs :
                   /\ PushStep(p)
                   /\ after = Append(before, <<frame[p].msg_id, frame[p].body>>)
           ELSE IF \E p \in Procs : /\ HandleResult(p, "DeleteMessage", 200)
                                     /\ resp'[p].queue = q
                THEN \E pos \in 1..Len(before) : Without(before, after, pos)
                ELSE after = before
    ]_vars

\* The middle one of three messages has just been deleted and the other two
\* are still in the order of their sends.
C23_Witness ==
  \E p \in Procs :
     /\ pc[p] = "done"
     /\ resp[p].action = "DeleteMessage"
     /\ resp[p].status = 200
     /\ Len(pushOrder) = 3
     /\ Ids(queues[resp[p].queue].messages) = <<pushOrder[1], pushOrder[3]>>
     /\ queues[resp[p].queue].messages[1].message_body
          # queues[resp[p].queue].messages[2].message_body
     /\ queues[resp[p].queue].messages[1].receive_count > 0

\* p's receive runs with an effective visibility timeout of 0.
ZeroStep(p) ==
  /\ PollStep(p)
  /\ EffectiveTimeout(queues[frame[p].queue], frame[p].vt) = 0

\* A receive with timeout 0 returns no message twice, and each message it
\* returns is visible in the state it leaves.
OnceAndVisible(p) ==
  /\ \A k, l \in 1..Len(Polled(p)) :
        Polled(p)[k].id = Polled(p)[l].id => k = l
  /\ \A k \in 1..Len(Polled(p)) :
        \E i \in VisibleIdx(queues'[frame[p].queue].messages, now') :
           queues'[frame[p].queue].messages[i].id = Polled(p)[k].id

\* Message m was last returned by a receive with timeout 0 and its window
\* has not been changed since.
ZeroReceived(m) ==
  /\ m.id \in DOMAIN hidden
  /\ ~hidden[m.id].timed
  /\ hidden[m.id].cv = NoTime

\* p's receive returns message m with a handle never issued before and a
\* receive_count one higher.
ReturnedAnew(p, m) ==
  \E k \in 1..Len(Polled(p)) :
     /\ Polled(p)[k].id = m.id
     /\ Polled(p)[k].receipt_handle \notin DOMAIN issuedTo
     /\ Polled(p)[k].receipt_handle # m.receipt_handle
     /\ Polled(p)[k].receive_count = m.receive_count + 1

\* The visible messages ahead of position i.
VisibleAhead(messages, i, t) == {j \in VisibleIdx(messages, t) : j < i}

\* C24 as stated: a receive with timeout 0 returns no message twice and
\* leaves it visible, and the next receive returns it again with a new
\* handle and receive_count + 1.
C24_Original ==
  [][\A p \in Procs :
        /\ ZeroStep(p) => OnceAndVisible(p)
        /\ PollStep(p) =>
             \A i \in 1..Len(queues[frame[p].queue].messages) :
                ZeroReceived(queues[frame[p].queue].messages[i])
                => ReturnedAnew(p, queues[frame[p].queue].messages[i])
    ]_vars

\* C24 amended: a receive with timeout 0 returns no message twice and leaves
\* it visible; the next receive returns it again, with a new handle and
\* receive_count + 1, when fewer than max_messages visible messages are
\* ahead of it in the queue.
C24_ZeroTimeout ==
  [][\A p \in Procs :
        /\ ZeroStep(p) => OnceAndVisible(p)
        /\ PollStep(p) =>
             \A i \in 1..Len(queues[frame[p].queue].messages) :
                ( /\ ZeroReceived(queues[frame[p].queue].messages[i])
                  /\ Cardinality(VisibleAhead(queues[frame[p].queue].messages,
                                              i, now)) < frame[p].max )
                => ReturnedAnew(p, queues[frame[p].queue].messages[i])
    ]_vars

\* A receive with timeout 0 has just returned, for the second time at the
\* same instant, a message whose first receive also had timeout 0.
C24_Witness ==
  \E p \in Procs :
     /\ pc[p] = "done"
     /\ resp[p].action = "ReceiveMessage"
     /\ resp[p].status = 200
     /\ frame[p].vt = 0
     /\ Len(resp[p].messages) >= 1
     /\ resp[p].messages[1].receive_count = 2
     /\ resp[p].messages[1].first_received_at = now
     /\ resp[p].messages[1].visible_at = now
     /\ resp[p].messages[1].receipt_handle = 2
     /\ IssuedId(1) = resp[p].messages[1].id
     /\ ZeroReceived(resp[p].messages[1])

\* p holds a ReceiveMessage response that returned messages.
Received(p) ==
  /\ pc[p] = "done"
  /\ resp[p].action = "ReceiveMessage"
  /\ resp[p].status = 200
  /\ resp[p].messages # <<>>

\* C25: first_received_at is set by the first receive of a message and never
\* changes afterwards, and the ApproximateFirstReceiveTimestamp reported for
\* a returned message is that stored instant, so that all responses returning
\* the message report the same value.
C25_FirstReceiveTimestamp ==
  /\ [][\A q \in DOMAIN queues :
          \A i \in 1..Len(queues[q].messages), j \in 1..Len(queues'[q].messages) :
             queues[q].messages[i].id = queues'[q].messages[j].id
             => IF queues[q].messages[i].receive_count = 0
                   /\ queues'[q].messages[j].receive_count > 0
                THEN queues'[q].messages[j].first_received_at = now
                ELSE queues'[q].messages[j].first_received_at
                       = queues[q].messages[i].first_received_at
       ]_vars
  /\ [](\A p \in Procs : Received(p) =>
          \A k \in 1..Len(resp[p].messages) :
             AttributeValue(resp[p].xml[k].attributes,
                            "ApproximateFirstReceiveTimestamp")
               = ToString(SystemTimeMs(resp[p].messages[k].first_received_at)))

\* p's SetQueueAttributes, carrying a VisibilityTimeout that parses, has
\* just attempted its store write.
StoreStep(p) ==
  /\ pc[p] = "sqa_store"
  /\ pc'[p] = "done"
  /\ NewTimeout(frame[p].attrs) >= 0

\* C26: when the store write of a SetQueueAttributes with a parseable
\* VisibilityTimeout fails, the response is 500, the store keeps what it
\* held and the in-memory default_visibility_timeout keeps the new value;
\* a receive without an override hides its messages for the in-memory
\* timeout, whatever the store holds.
C26_StoreFailure ==
  [][\A p \in Procs :
        /\ StoreStep(p) =>
             /\ resp'[p].status \in {200, 500}
             /\ queues'[frame[p].queue].default_visibility_timeout
                  = NewTimeout(frame[p].attrs)
             /\ resp'[p].status = 200 =>
                  store'[frame[p].queue]
                    = store_set(store[frame[p].queue], frame[p].attrs)
             /\ resp'[p].status = 500 =>
                  /\ store' = store
                  /\ resp'[p].metadata = ""
        /\ ( PollStep(p) /\ frame[p].vt = NoVT ) =>
             \A k \in 1..Len(Polled(p)) :
                Polled(p)[k].visible_at
                  = now + queues[frame[p].queue].default_visibility_timeout
                            * MsPerSec
    ]_vars

\* A receive without an override has hidden a message for the 2 seconds of
\* a SetQueueAttributes whose store write failed: the store has no
\* VisibilityTimeout row.
C26_Witness ==
  \E p \in Procs :
     /\ Received(p)
     /\ frame[p].vt = NoVT
     /\ resp[p].messages[1].visible_at = now + 2 * MsPerSec
     /\ queues[resp[p].queue].default_visibility_timeout = 2
     /\ "VisibilityTimeout" \notin Names(store[resp[p].queue])

\* C27: a delete_by_receipt_handle or change_visibility that finds no
\* message storing the handle leaves the queue exactly as it was, and a
\* change_visibility that finds one changes the visible_at of that message
\* and nothing else.
C27_FailedHandleOpsPure ==
  [][\A p \in Procs :
        /\ ( HandleStep(p) /\ resp'[p].status = 400 ) =>
             /\ ~Stored(queues[resp'[p].queue].messages, resp'[p].handle)
             /\ queues' = queues
        /\ HandleResult(p, "ChangeMessageVisibility", 200) =>
             \E pos \in 1..Len(queues[resp'[p].queue].messages) :
                /\ queues[resp'[p].queue].messages[pos].receipt_handle
                     = resp'[p].handle
                /\ queues' = [queues EXCEPT
                      ![resp'[p].queue].messages[pos].visible_at =
                         now + resp'[p].timeout * MsPerSec]
    ]_vars

\* A ChangeMessageVisibility has just failed with a handle that was issued
\* for a message still in the queue, in flight under a newer handle.
C27_Witness ==
  \E p \in Procs :
     /\ pc[p] = "done"
     /\ resp[p].action = "ChangeMessageVisibility"
     /\ resp[p].status = 400
     /\ resp[p].handle \in DOMAIN issuedTo
     /\ resp[p].queue \in DOMAIN queues
     /\ \E i \in 1..Len(queues[resp[p].queue].messages) :
           /\ queues[resp[p].queue].messages[i].id = IssuedId(resp[p].handle)
           /\ queues[resp[p].queue].messages[i].receipt_handle # resp[p].handle
           /\ queues[resp[p].queue].messages[i].receive_count = 2
           /\ queues[resp[p].queue].messages[i].visible_at > now

====
